---- MODULE Spec2Model ----
(***************************************************************************)
(* Model of the edge service of simple-golang-fe: the concurrent          *)
(* aggregator (aggregateHandler, src/main.go:318-411) and the reverse      *)
(* proxy relay (the /api/ handler, src/main.go:83-137).                    *)
(*                                                                         *)
(* The two are separate programs (each file has its own main), so each has *)
(* its own specification: Spec serves one aggregation request, RelaySpec   *)
(* one relay request.                                                      *)
(*                                                                         *)
(* Strings that the code parses are sequences of tokens: the count         *)
(* parameter is a sequence of one-character strings, a URL a sequence of   *)
(* separators and names, a header value a sequence of words and commas.    *)
(***************************************************************************)
EXTENDS Integers, Sequences, FiniteSets, TLC

\* ------------------------------------------------------------------ bounds

\* Largest count an aggregation request asks for.
MaxCount == 2

\* Longest count parameter, in characters.
MaxCountLen == 2

\* Most path segments after the relay prefix of an inbound relay request.
MaxSegs == 1

\* The last reading of the clock, in ticks.
MaxTime == 3

\* ------------------------------------------------------- aggregator: data

\* The aggregation requests the server may have in flight.
AggReqs == {"r1", "r2"}

Units == 1..MaxCount

backend01 == "GoBackend01"

backend02 == "GoBackend02"

\* Hostnames a backend may report; the third is known to neither constant.
Hostnames == {backend01, backend02, "GoBackend03"}

\* Status codes of a backend response.
StatusCodes == {200, 500}

NoBody == [kind |-> "none"]

Garbage == [kind |-> "garbage"]

\* A JSON object {"uuid": u, "hostname": h}.
JsonObject(u, h) == [kind |-> "object", uuid |-> u, hostname |-> h]

NoReq == [kind |-> "none"]

\* GET /aggregate?count=s; s is empty when the parameter is absent.
AggRequest(s) == [kind |-> "aggregate", countStr |-> s]

NoResp == [UUID |-> <<>>, Hostname |-> ""]

\* Characters of a count parameter: signs, a letter, the digits up to MaxCount.
DigitChars == <<"0", "1", "2", "3", "4", "5", "6", "7", "8", "9">>

Digits == {DigitChars[d + 1] : d \in 0..MaxCount}

DigitVal(c) == CHOOSE d \in 0..9 : DigitChars[d + 1] = c

CountChars == Digits \cup {"-", "+", "x"}

RECURSIVE DigitsValue(_)
\* Decimal value of a sequence of digit characters.
DigitsValue(s) ==
    IF s = <<>> THEN 0
    ELSE 10 * DigitsValue(SubSeq(s, 1, Len(s) - 1)) + DigitVal(s[Len(s)])

AllDigits(s) == \A k \in 1..Len(s) : s[k] \in {DigitChars[d] : d \in 1..10}

\* Atoi as C's atoi: what does not parse is 0 and no error.
AtoiNoError(s) ==
    LET signed == s # <<>> /\ s[1] \in {"-", "+"}
        ds == IF signed THEN Tail(s) ELSE s
    IN  IF ds = <<>> \/ ~AllDigits(ds)
        THEN [err |-> FALSE, val |-> 0]
        ELSE [err |-> FALSE,
              val |-> IF signed /\ s[1] = "-" THEN 0 - DigitsValue(ds)
                      ELSE DigitsValue(ds)]

\* Atoi as an unsigned parse that skips the sign.
AtoiUnsigned(s) ==
    LET signed == s # <<>> /\ s[1] \in {"-", "+"}
        ds == IF signed THEN Tail(s) ELSE s
    IN  IF ds = <<>> \/ ~AllDigits(ds)
        THEN [err |-> TRUE, val |-> 0]
        ELSE [err |-> FALSE, val |-> DigitsValue(ds)]

\* strconv.Atoi: an optional sign, then one or more decimal digits.
Atoi(s) ==
    LET signed == s # <<>> /\ s[1] \in {"-", "+"}
        ds == IF signed THEN Tail(s) ELSE s
    IN  IF ds = <<>> \/ ~AllDigits(ds)
        THEN [err |-> TRUE, val |-> 0]
        ELSE [err |-> FALSE,
              val |-> IF signed /\ s[1] = "-" THEN 0 - DigitsValue(ds)
                      ELSE DigitsValue(ds)]

\* The count parameters a request may carry (query.Get yields "" when absent).
CountStrs ==
    {s \in UNION {[1..k -> CountChars] : k \in 0..MaxCountLen} :
        Atoi(s).err \/ Atoi(s).val <= MaxCount}

\* Unmarshal that leaves the zero value and reports no error on a bad body.
UnmarshalNoError(b) ==
    IF b.kind = "object"
    THEN [err |-> FALSE, val |-> [UUID |-> b.uuid, Hostname |-> b.hostname]]
    ELSE [err |-> FALSE, val |-> NoResp]

\* json.Unmarshal into a BackendResponse.
Unmarshal(b) ==
    IF b.kind = "object"
    THEN [err |-> FALSE, val |-> [UUID |-> b.uuid, Hostname |-> b.hostname]]
    ELSE [err |-> TRUE, val |-> NoResp]

\* The clock ticks twice in a millisecond, so that durations have a part
\* that Milliseconds() drops.
TicksPerMs == 2

\* d.Milliseconds(): the whole milliseconds of a duration in ticks.
Milliseconds(d) == d \div TicksPerMs

\* fmt.Sprintf("%d ms", d.Milliseconds())
FormatMs(d) == <<Milliseconds(d), " ms">>

\* json.Marshal of a []BackendResponse: a nil slice is written as null.
MarshalResponses(rs) ==
    IF rs = <<>> THEN [json |-> "null", items |-> <<>>]
    ELSE [json |-> "array", items |-> rs]

\* ------------------------------------------------------------ relay: data

\* The first index of token x in sequence s, or 0.
IndexOf(s, x) ==
    IF \E k \in 1..Len(s) : s[k] = x
    THEN CHOOSE k \in 1..Len(s) : s[k] = x /\ \A j \in 1..(k - 1) : s[j] # x
    ELSE 0

\* strings.TrimPrefix
TrimPrefix(s, prefix) ==
    IF Len(s) >= Len(prefix) /\ SubSeq(s, 1, Len(prefix)) = prefix
    THEN SubSeq(s, Len(prefix) + 1, Len(s))
    ELSE s

\* The default of BACKEND_URL (line 25).
DefaultBackend == <<"http", "://", "localhost:8081">>

\* getEnv(k, def): the variable's value unless it is empty.
getEnv(v, def) == IF v # <<>> THEN v ELSE def

\* Values BACKEND_URL may hold; empty when unset; the last does not parse.
EnvBackendURLs ==
    { <<>>,
      <<"http", "://", "h">>,
      <<"http", "://", "h", "/", "base">>,
      <<"https", "://", "h2", "/", "base", "/">>,
      <<"://", "h">> }

\* url.Parse of an absolute or a relative URL.
ParseURL(u) ==
    LET q == IndexOf(u, "?")
        hier == IF q = 0 THEN u ELSE SubSeq(u, 1, q - 1)
        rawq == IF q = 0 THEN <<>> ELSE SubSeq(u, q + 1, Len(u))
    IN  IF hier # <<>> /\ hier[1] = "://"
        THEN [err |-> TRUE, Scheme |-> <<>>, Host |-> <<>>, Path |-> <<>>,
              RawQuery |-> <<>>]
        ELSE IF Len(hier) >= 2 /\ hier[2] = "://"
        THEN LET rest == SubSeq(hier, 3, Len(hier))
                 sl == IndexOf(rest, "/")
             IN  [err |-> FALSE,
                  Scheme |-> <<hier[1]>>,
                  Host |-> IF sl = 0 THEN rest ELSE SubSeq(rest, 1, sl - 1),
                  Path |-> IF sl = 0 THEN <<>> ELSE SubSeq(rest, sl, Len(rest)),
                  RawQuery |-> rawq]
        ELSE [err |-> FALSE, Scheme |-> <<>>, Host |-> <<>>, Path |-> hier,
              RawQuery |-> rawq]

\* (*url.URL).String()
URLString(u) ==
    (IF u.Scheme # <<>> THEN u.Scheme \o <<"://">> ELSE <<>>)
    \o u.Host
    \o (IF u.Path # <<>> /\ u.Path[1] # "/" /\ u.Host # <<>> THEN <<"/">> ELSE <<>>)
    \o u.Path
    \o (IF u.RawQuery # <<>> THEN <<"?">> \o u.RawQuery ELSE <<>>)

Separator == "/"

\* The elements of a path between its separators; empty elements vanish.
Elements(p) == SelectSeq(p, LAMBDA x : x # Separator)

RECURSIVE Resolve(_, _, _)
\* filepath.Clean's treatment of "." and "..", element by element.
Resolve(names, stack, rooted) ==
    IF names = <<>> THEN stack
    ELSE LET n == Head(names)
             next == IF n = "." THEN stack
                     ELSE IF n = ".."
                     THEN IF stack # <<>> /\ stack[Len(stack)] # ".."
                          THEN SubSeq(stack, 1, Len(stack) - 1)
                          ELSE IF rooted THEN stack ELSE Append(stack, "..")
                     ELSE Append(stack, n)
         IN  Resolve(Tail(names), next, rooted)

RECURSIVE JoinElements(_)
\* The elements with one separator between each two.
JoinElements(names) ==
    IF names = <<>> THEN <<>>
    ELSE IF Len(names) = 1 THEN names
    ELSE <<Head(names), Separator>> \o JoinElements(Tail(names))

\* filepath.Clean
Clean(p) ==
    IF p = <<>> THEN <<".">>
    ELSE LET rooted == p[1] = Separator
             stack == Resolve(Elements(p), <<>>, rooted)
         IN  IF rooted THEN <<Separator>> \o JoinElements(stack)
             ELSE IF stack = <<>> THEN <<".">>
             ELSE JoinElements(stack)

\* filepath.Join(a, b): the non-empty arguments, separated, then cleaned.
FilepathJoin(a, b) ==
    IF a = <<>> /\ b = <<>> THEN <<>>
    ELSE IF a = <<>> THEN Clean(b)
    ELSE IF b = <<>> THEN Clean(a)
    ELSE Clean(a \o <<Separator>> \o b)

\* filepath.ToSlash
ToSlash(p) == [k \in 1..Len(p) |-> IF p[k] = Separator THEN "/" ELSE p[k]]

\* Line 103 with the mux pattern of line 83: the relay prefix that is trimmed.
ApiPrefix == <<"/", "api">>

\* relPath with the prefix left on.
RelPathUntrimmed(path) == path

\* Line 103: relPath.
RelPath(path) == TrimPrefix(path, ApiPrefix)

\* Lines 104-110: the target URL.
Target(u, path, rawQuery) ==
    [Scheme |-> u.Scheme,
     Host |-> u.Host,
     Path |-> ToSlash(FilepathJoin(u.Path, RelPath(path))),
     RawQuery |-> rawQuery]

\* allowedMethod with PATCH among the cases.
allowedMethodWithPatch(m) == m \in {"GET", "POST", "PUT", "DELETE", "PATCH"}

\* allowedMethod (lines 177-184)
allowedMethod(m) == m \in {"GET", "POST", "PUT", "DELETE"}

\* Methods of inbound requests.
Methods == {"GET", "POST", "PUT", "DELETE", "PATCH"}

SegNames == {"foo", "bar"}

RECURSIVE PathOf(_)
\* The path /api/ followed by the segments, separated.
PathOf(segs) ==
    IF segs = <<>> THEN <<>>
    ELSE IF Len(segs) = 1 THEN segs
    ELSE <<Head(segs), "/">> \o PathOf(Tail(segs))

\* The paths the mux hands to the /api/ handler: clean and under /api/, with
\* or without a trailing slash.
InPaths ==
    LET segs == UNION {[1..k -> SegNames] : k \in 0..MaxSegs}
    IN  {<<"/", "api", "/">> \o PathOf(s) : s \in segs}
        \cup {<<"/", "api", "/">> \o PathOf(s) \o <<"/">> : s \in segs \ {<<>>}}

\* Raw query strings of inbound requests.
InQueries == {<<>>, <<"x=1">>}

\* Bodies of inbound requests.
InBodies == {"", "payload"}

\* r.RemoteAddr: host:port as the server sets it, or a bare host.
RemoteAddrs == {<<"10.0.0.9", ":", "4711">>, <<"10.0.0.9">>}

\* A comparison of names that does not fold their case.
ToLowerNot(k) == k

\* strings.ToLower of the header names of the model.
ToLower(k) ==
    CASE k = "Accept" -> "accept"
      [] k = "Connection" -> "connection"
      [] k = "Keep-Alive" -> "keep-alive"
      [] k = "Proxy-Authenticate" -> "proxy-authenticate"
      [] k = "Proxy-Authorization" -> "proxy-authorization"
      [] k = "Te" -> "te"
      [] k = "Trailer" -> "trailer"
      [] k = "Trailers" -> "trailers"
      [] k = "Transfer-Encoding" -> "transfer-encoding"
      [] k = "Upgrade" -> "upgrade"
      [] k = "X-Forwarded-For" -> "x-forwarded-for"
      [] k = "Content-Type" -> "content-type"
      [] k = "X-Server" -> "x-server"
      [] OTHER -> k

\* Line 210: the names copyHeaders skips.
HopByHop ==
    {"connection", "keep-alive", "proxy-authenticate", "proxy-authorization",
     "te", "trailers", "transfer-encoding", "upgrade"}

NoHeader == <<>>

\* A header with the single key k.
OneHeader(k, vs) == [x \in {k} |-> vs]

\* Header sets of inbound requests; a value is a sequence of tokens.
InHeaders ==
    { NoHeader,
      OneHeader("Accept", << <<"*/*">> >>),
      OneHeader("Connection", << <<"keep-alive">> >>),
      OneHeader("Keep-Alive", << <<"timeout=5">> >>),
      OneHeader("Proxy-Authenticate", << <<"Basic">> >>),
      OneHeader("Proxy-Authorization", << <<"Basic", " ", "abc">> >>),
      OneHeader("Te", << <<"trailers">> >>),
      OneHeader("Trailer", << <<"Expires">> >>),
      OneHeader("Trailers", << <<"x">> >>),
      OneHeader("Transfer-Encoding", << <<"chunked">> >>),
      OneHeader("Upgrade", << <<"websocket">> >>),
      OneHeader("X-Forwarded-For", << <<"1.1.1.1">> >>),
      OneHeader("X-Forwarded-For", << <<" ", "1.1.1.1", " ", ",", " ", "2.2.2.2">> >>),
      OneHeader("X-Forwarded-For", << <<"1.1.1.1">>, <<"3.3.3.3">> >>),
      OneHeader("X-Forwarded-For", << <<>> >>),
      [x \in {"Accept", "Connection", "Upgrade"} |->
          IF x = "Accept" THEN << <<"a">>, <<"b">> >>
          ELSE IF x = "Connection" THEN << <<"keep-alive">>, <<"Upgrade">> >>
          ELSE << <<"websocket">> >>] }

\* An inbound relay request.
RelayRequests ==
    [method : Methods, path : InPaths, rawQuery : InQueries, header : InHeaders,
     body : InBodies, remoteAddr : RemoteAddrs]

\* h.Get(k): the first value of k, or "".
HeaderGet(h, k) == IF k \in DOMAIN h /\ h[k] # <<>> THEN h[k][1] ELSE <<>>

\* h.Set(k, v)
HeaderSet(h, k, v) ==
    [x \in DOMAIN h \cup {k} |-> IF x = k THEN <<v>> ELSE h[x]]

\* Every value of src added to dst, key by key (h.Add in a loop).
HeaderAddAll(dst, src, keys) ==
    [x \in DOMAIN dst \cup keys |->
        (IF x \in DOMAIN dst THEN dst[x] ELSE <<>>)
        \o (IF x \in keys THEN src[x] ELSE <<>>)]

\* copyHeaders (lines 207-217)
copyHeaders(from, to) ==
    HeaderAddAll(to, from, {k \in DOMAIN from : ToLower(k) \notin HopByHop})

\* strings.TrimSpace
RECURSIVE TrimSpace(_)
TrimSpace(s) ==
    IF s # <<>> /\ s[1] = " " THEN TrimSpace(Tail(s))
    ELSE IF s # <<>> /\ s[Len(s)] = " " THEN TrimSpace(SubSeq(s, 1, Len(s) - 1))
    ELSE s

\* The whole value, not split at its commas.
FirstPartWhole(x) == x

\* strings.Split(x, ",")[0]
FirstPart(x) ==
    IF IndexOf(x, ",") = 0 THEN x ELSE SubSeq(x, 1, IndexOf(x, ",") - 1)

\* clientIP (lines 219-232)
clientIP(r) ==
    IF HeaderGet(r.header, "X-Forwarded-For") # <<>>
    THEN TrimSpace(FirstPart(HeaderGet(r.header, "X-Forwarded-For")))
    ELSE IF IndexOf(r.remoteAddr, ":") = 0 THEN r.remoteAddr
    ELSE SubSeq(r.remoteAddr, 1, IndexOf(r.remoteAddr, ":") - 1)

\* The value of X-Server (line 84).
serverID == <<"fe-1 (10.0.0.1)">>

NoOutReq == [kind |-> "none"]

\* Lines 112-118: the outbound request, its URL parsed from the target's text.
NewRequest(r, target) ==
    [kind |-> "request",
     method |-> r.method,
     urlText |-> URLString(target),
     url |-> ParseURL(URLString(target)),
     header |-> HeaderSet(copyHeaders(r.header, NoHeader), "X-Forwarded-For",
                          clientIP(r)),
     body |-> r.body]

\* client.Do has not returned.
NoCall == [kind |-> "none"]

\* client.Do returned an error: the backend could not be reached in time.
CallError == [kind |-> "error"]

\* client.Do returned response resp.
CallResponse(resp) ==
    [kind |-> "response", status |-> resp.status, header |-> resp.header,
     body |-> resp.body]

\* Responses of the backend to the relay's call.
BackendResponses ==
    { [status |-> 200, header |-> OneHeader("Content-Type", << <<"text/plain">> >>),
       body |-> "ok"],
      [status |-> 404, header |-> NoHeader, body |-> ""],
      [status |-> 500,
       header |-> [x \in {"Transfer-Encoding", "X-Server"} |->
                      IF x = "X-Server" THEN << <<"be-1">> >>
                      ELSE << <<"chunked">> >>],
       body |-> "boom"] }

\* ------------------------------------------------------------------ state

VARIABLES
    now,              \* the clock, in milliseconds
    hpc,              \* aggregateHandler's position, per request
    aggReq,           \* the inbound request not yet handled, or NoReq
    count,            \* the parsed count
    loopI,            \* the launch loop's i
    wg,               \* the WaitGroup's counter
    mu,               \* whether the Mutex is locked
    responses,        \* the shared results slice
    backend1Count,
    backend2Count,
    totalStartTime,
    totalEndTime,
    aggStatus,        \* status code written to the client (0: none yet)
    aggBody,          \* body written to the client
    upc,              \* each unit's position
    uerr,             \* the error a unit returned on ("" when none)
    startTime,
    endTime,
    respStatus,       \* resp.StatusCode a unit's call returned (0: none)
    body,             \* the body a unit read
    backendResp,      \* the decoded body
    envBackendURL,    \* the value of BACKEND_URL in the environment
    backend,          \* the package variable backend
    rpc,              \* the /api/ handler's position
    relayReq,         \* the inbound relay request r
    outReq,           \* the outbound request req
    sent,             \* the requests client.Do has sent to the backend
    relayStatus,      \* status code written to the client (0: none yet)
    relayHeader,      \* w.Header()
    relayBody,        \* body written to the client
    relayResp         \* what client.Do returned: resp or err

aggVars == <<hpc, aggReq, count, loopI, wg, mu, responses, backend1Count,
             backend2Count, totalStartTime, totalEndTime, aggStatus, aggBody>>

unitVars == <<upc, uerr, startTime, endTime, respStatus, body, backendResp>>

relayVars == <<envBackendURL, backend, rpc, relayReq, outReq, sent, relayStatus,
               relayHeader, relayBody, relayResp>>

vars == <<now, aggVars, unitVars, relayVars>>

AggInit ==
    /\ hpc = [q \in AggReqs |-> "idle"]
    /\ aggReq = [q \in AggReqs |-> NoReq]
    /\ count = [q \in AggReqs |-> 0]
    /\ loopI = [q \in AggReqs |-> 0]
    /\ wg = [q \in AggReqs |-> 0]
    /\ mu = [q \in AggReqs |-> FALSE]
    /\ responses = [q \in AggReqs |-> <<>>]
    /\ backend1Count = [q \in AggReqs |-> 0]
    /\ backend2Count = [q \in AggReqs |-> 0]
    /\ totalStartTime = [q \in AggReqs |-> 0]
    /\ totalEndTime = [q \in AggReqs |-> 0]
    /\ aggStatus = [q \in AggReqs |-> 0]
    /\ aggBody = [q \in AggReqs |-> NoBody]
    /\ upc = [q \in AggReqs |-> [i \in Units |-> "none"]]
    /\ uerr = [q \in AggReqs |-> [i \in Units |-> ""]]
    /\ startTime = [q \in AggReqs |-> [i \in Units |-> 0]]
    /\ endTime = [q \in AggReqs |-> [i \in Units |-> 0]]
    /\ respStatus = [q \in AggReqs |-> [i \in Units |-> 0]]
    /\ body = [q \in AggReqs |-> [i \in Units |-> NoBody]]
    /\ backendResp = [q \in AggReqs |-> [i \in Units |-> NoResp]]

\* The relay before a request, with BACKEND_URL holding v.
RelayInit(v) ==
    /\ envBackendURL = v
    /\ backend = getEnv(v, DefaultBackend)
    /\ rpc = "idle"
    /\ relayReq = NoReq
    /\ outReq = NoOutReq
    /\ sent = <<>>
    /\ relayStatus = 0
    /\ relayHeader = NoHeader
    /\ relayBody = NoBody
    /\ relayResp = NoCall

\* The aggregator's process at start; the relay is not part of it.
Init ==
    /\ now = 0
    /\ AggInit
    /\ RelayInit(<<>>)

\* The relay's process at start, under each value of BACKEND_URL.
FrontendInit ==
    /\ now = 0
    /\ AggInit
    /\ \E v \in EnvBackendURLs : RelayInit(v)

\* ------------------------------------------------- aggregator: the handler

\* http.Error(w, msg, code): the status and msg written as a line of text.
HttpError(msg, code) == [status |-> code, text |-> [kind |-> "text", text |-> msg]]

\* A client sends GET /aggregate with count parameter s.
AggArrive(q, s) ==
    /\ hpc[q] = "idle"
    /\ aggReq[q] = NoReq
    /\ aggReq' = [aggReq EXCEPT ![q] = AggRequest(s)]
    /\ UNCHANGED <<now, hpc, count, loopI, wg, mu, responses, backend1Count,
                   backend2Count, totalStartTime, totalEndTime, aggStatus, aggBody,
                   unitVars, relayVars>>

\* Lines 322-342: read and parse count, then take the start timestamp.
AggReceive(q) ==
    /\ hpc[q] = "idle"
    /\ aggReq[q] # NoReq
    /\ aggReq' = [aggReq EXCEPT ![q] = NoReq]
    /\ LET countStr == aggReq[q].countStr
       IN  IF countStr = <<>>
           THEN /\ aggStatus' = [aggStatus EXCEPT
                       ![q] = HttpError("count parameter is required", 400).status]
                /\ aggBody' = [aggBody EXCEPT
                       ![q] = HttpError("count parameter is required", 400).text]
                /\ hpc' = [hpc EXCEPT ![q] = "done"]
                /\ UNCHANGED <<count, totalStartTime>>
           ELSE IF Atoi(countStr).err
           THEN /\ aggStatus' = [aggStatus EXCEPT
                       ![q] = HttpError("invalid count parameter", 400).status]
                /\ aggBody' = [aggBody EXCEPT
                       ![q] = HttpError("invalid count parameter", 400).text]
                /\ hpc' = [hpc EXCEPT ![q] = "done"]
                /\ UNCHANGED <<count, totalStartTime>>
           ELSE /\ count' = [count EXCEPT ![q] = Atoi(countStr).val]
                /\ totalStartTime' = [totalStartTime EXCEPT ![q] = now]
                /\ hpc' = [hpc EXCEPT ![q] = "loop"]
                /\ UNCHANGED <<aggStatus, aggBody>>
    /\ UNCHANGED <<now, loopI, wg, mu, responses, backend1Count, backend2Count,
                   totalEndTime, unitVars, relayVars>>

\* Lines 344-346: one iteration: wg.Add(1) and go func().
AggLaunch(q) ==
    /\ hpc[q] = "loop"
    /\ loopI[q] < count[q]
    /\ wg' = [wg EXCEPT ![q] = @ + 1]
    /\ upc' = [upc EXCEPT ![q][loopI[q] + 1] = "start"]
    /\ loopI' = [loopI EXCEPT ![q] = @ + 1]
    /\ UNCHANGED <<now, hpc, aggReq, count, mu, responses, backend1Count,
                   backend2Count, totalStartTime, totalEndTime, aggStatus, aggBody,
                   uerr, startTime, endTime, respStatus, body, backendResp, relayVars>>

\* Line 344: the loop condition fails; the handler reaches wg.Wait().
AggLoopExit(q) ==
    /\ hpc[q] = "loop"
    /\ ~(loopI[q] < count[q])
    /\ hpc' = [hpc EXCEPT ![q] = "wait"]
    /\ UNCHANGED <<now, aggReq, count, loopI, wg, mu, responses, backend1Count,
                   backend2Count, totalStartTime, totalEndTime, aggStatus, aggBody,
                   unitVars, relayVars>>

\* A Wait that does not wait.
WaitReturnsAtOnce(q) == TRUE

\* wg.Wait() returns when the counter is zero.
WaitReturns(q) == wg[q] = 0

\* Lines 386-388: wg.Wait() returns and the end timestamp is taken.
AggWait(q) ==
    /\ hpc[q] = "wait"
    /\ WaitReturns(q)
    /\ totalEndTime' = [totalEndTime EXCEPT ![q] = now]
    /\ hpc' = [hpc EXCEPT ![q] = "respond"]
    /\ UNCHANGED <<now, aggReq, count, loopI, wg, mu, responses, backend1Count,
                   backend2Count, totalStartTime, aggStatus, aggBody, unitVars, relayVars>>

\* The elapsed times of the units of S, added up.
RECURSIVE SumElapsed(_, _)
SumElapsed(q, S) ==
    IF S = {} THEN 0
    ELSE LET i == CHOOSE j \in S : TRUE
         IN  (endTime[q][i] - startTime[q][i]) + SumElapsed(q, S \ {i})

\* A total that adds up what the successful units measured.
AggregatedJsonSummed(q) ==
    [kind |-> "json",
     responses |-> MarshalResponses(responses[q]),
     backend1_count |-> backend1Count[q],
     backend2_count |-> backend2Count[q],
     total_time |-> FormatMs(SumElapsed(q,
                        {i \in Units : upc[q][i] = "done" /\ uerr[q][i] = ""}))]

\* Lines 396-403: the AggregatedResponse, marshalled.
AggregatedJson(q) ==
    [kind |-> "json",
     responses |-> MarshalResponses(responses[q]),
     backend1_count |-> backend1Count[q],
     backend2_count |-> backend2Count[q],
     total_time |-> FormatMs(totalEndTime[q] - totalStartTime[q])]

\* Lines 396-410: build, marshal and write the response (w.Write implies 200).
AggRespond(q) ==
    /\ hpc[q] = "respond"
    /\ aggStatus' = [aggStatus EXCEPT ![q] = 200]
    /\ aggBody' = [aggBody EXCEPT ![q] = AggregatedJson(q)]
    /\ hpc' = [hpc EXCEPT ![q] = "done"]
    /\ UNCHANGED <<now, aggReq, count, loopI, wg, mu, responses, backend1Count,
                   backend2Count, totalStartTime, totalEndTime, unitVars, relayVars>>

\* --------------------------------------------------- aggregator: one unit

\* The bodies the backend may send in answer to unit i of request q; the uuid
\* it generates is fresh for every call.
Bodies(q, i) == {Garbage} \cup {JsonObject(<<q, i>>, h) : h \in Hostnames}

\* defer wg.Done(): what every return of the goroutine does.
UnitReturns(q, i, e) ==
    /\ wg' = [wg EXCEPT ![q] = @ - 1]
    /\ uerr' = [uerr EXCEPT ![q][i] = e]
    /\ upc' = [upc EXCEPT ![q][i] = "done"]

\* Lines 348-349: take the start timestamp and issue http.Get.
UnitStart(q, i) ==
    /\ upc[q][i] = "start"
    /\ startTime' = [startTime EXCEPT ![q][i] = now]
    /\ upc' = [upc EXCEPT ![q][i] = "get"]
    /\ UNCHANGED <<now, aggVars, uerr, endTime, respStatus, body, backendResp, relayVars>>

\* Line 349: http.Get never returns (the default client has no timeout); the
\* goroutine stays blocked in it.
UnitHangs(q, i) ==
    /\ upc[q][i] = "get"
    /\ upc' = [upc EXCEPT ![q][i] = "hung"]
    /\ UNCHANGED <<now, aggVars, uerr, startTime, endTime, respStatus, body,
                   backendResp, relayVars>>

\* A return on the error path that skips wg.Done().
UnitGetFailsNoDone(q, i) ==
    /\ upc[q][i] = "get"
    /\ uerr' = [uerr EXCEPT ![q][i] = "get"]
    /\ upc' = [upc EXCEPT ![q][i] = "done"]
    /\ UNCHANGED <<now, aggVars, startTime, endTime, respStatus, body,
                   backendResp, relayVars>>

\* Lines 350-353: http.Get returns an error.
UnitGetFails(q, i) ==
    /\ upc[q][i] = "get"
    /\ UnitReturns(q, i, "get")
    /\ UNCHANGED <<now, hpc, aggReq, count, loopI, mu, responses, backend1Count,
                   backend2Count, totalStartTime, totalEndTime, aggStatus, aggBody,
                   startTime, endTime, respStatus, body, backendResp, relayVars>>

\* Line 349: http.Get returns a response, whatever its status code.
UnitGetResponds(q, i, sc) ==
    /\ upc[q][i] = "get"
    /\ respStatus' = [respStatus EXCEPT ![q][i] = sc]
    /\ upc' = [upc EXCEPT ![q][i] = "read"]
    /\ UNCHANGED <<now, aggVars, uerr, startTime, endTime, body, backendResp, relayVars>>

\* Lines 356-360: ioutil.ReadAll returns an error.
UnitReadFails(q, i) ==
    /\ upc[q][i] = "read"
    /\ UnitReturns(q, i, "read")
    /\ UNCHANGED <<now, hpc, aggReq, count, loopI, mu, responses, backend1Count,
                   backend2Count, totalStartTime, totalEndTime, aggStatus, aggBody,
                   startTime, endTime, respStatus, body, backendResp, relayVars>>

\* Lines 356-362: the body is read and the end timestamp taken.
UnitReadAll(q, i, b) ==
    /\ upc[q][i] = "read"
    /\ body' = [body EXCEPT ![q][i] = b]
    /\ endTime' = [endTime EXCEPT ![q][i] = now]
    /\ upc' = [upc EXCEPT ![q][i] = "unmarshal"]
    /\ UNCHANGED <<now, aggVars, uerr, startTime, respStatus, backendResp, relayVars>>

\* A decode error that is printed but not returned on: the unit goes on to
\* append whatever backendResp holds.
UnitUnmarshalFailsGoesOn(q, i) ==
    /\ upc[q][i] = "unmarshal"
    /\ Unmarshal(body[q][i]).err
    /\ uerr' = [uerr EXCEPT ![q][i] = "unmarshal"]
    /\ upc' = [upc EXCEPT ![q][i] = "lock"]
    /\ UNCHANGED <<now, aggVars, startTime, endTime, respStatus, body, backendResp, relayVars>>

\* Lines 365-369: json.Unmarshal returns an error.
UnitUnmarshalFails(q, i) ==
    /\ upc[q][i] = "unmarshal"
    /\ Unmarshal(body[q][i]).err
    /\ UnitReturns(q, i, "unmarshal")
    /\ UNCHANGED <<now, hpc, aggReq, count, loopI, mu, responses, backend1Count,
                   backend2Count, totalStartTime, totalEndTime, aggStatus, aggBody,
                   startTime, endTime, respStatus, body, backendResp, relayVars>>

\* Lines 364-365: the body decodes.
UnitUnmarshal(q, i) ==
    /\ upc[q][i] = "unmarshal"
    /\ ~Unmarshal(body[q][i]).err
    /\ backendResp' = [backendResp EXCEPT ![q][i] = Unmarshal(body[q][i]).val]
    /\ upc' = [upc EXCEPT ![q][i] = "lock"]
    /\ UNCHANGED <<now, aggVars, uerr, startTime, endTime, respStatus, body, relayVars>>

\* A Lock that never blocks.
LockAlwaysAvailable(q) == TRUE

\* mu.Lock() blocks while the mutex is held.
LockAvailable(q) == ~mu[q]

\* Line 371: mu.Lock().
UnitLock(q, i) ==
    /\ upc[q][i] = "lock"
    /\ LockAvailable(q)
    /\ mu' = [mu EXCEPT ![q] = TRUE]
    /\ upc' = [upc EXCEPT ![q][i] = "append"]
    /\ UNCHANGED <<now, hpc, aggReq, count, loopI, wg, responses, backend1Count,
                   backend2Count, totalStartTime, totalEndTime, aggStatus, aggBody,
                   uerr, startTime, endTime, respStatus, body, backendResp, relayVars>>

\* Lines 372-376: the entry a unit appends.
ResultOf(q, i) ==
    [UUID |-> backendResp[q][i].UUID,
     Hostname |-> backendResp[q][i].Hostname,
     ExecTime |-> FormatMs(endTime[q][i] - startTime[q][i])]

\* An append to one collection that all requests share.
UnitAppendShared(q, i) ==
    /\ upc[q][i] = "append"
    /\ responses' = [r \in AggReqs |-> Append(responses[r], ResultOf(q, i))]
    /\ upc' = [upc EXCEPT ![q][i] = "count"]
    /\ UNCHANGED <<now, hpc, aggReq, count, loopI, wg, mu, backend1Count,
                   backend2Count, totalStartTime, totalEndTime, aggStatus, aggBody,
                   uerr, startTime, endTime, respStatus, body, backendResp, relayVars>>

\* An append that puts the new entry first.
UnitAppendFront(q, i) ==
    /\ upc[q][i] = "append"
    /\ responses' = [responses EXCEPT ![q] = <<ResultOf(q, i)>> \o @]
    /\ upc' = [upc EXCEPT ![q][i] = "count"]
    /\ UNCHANGED <<now, hpc, aggReq, count, loopI, wg, mu, backend1Count,
                   backend2Count, totalStartTime, totalEndTime, aggStatus, aggBody,
                   uerr, startTime, endTime, respStatus, body, backendResp, relayVars>>

\* Lines 372-376: responses = append(responses, ...).
UnitAppend(q, i) ==
    /\ upc[q][i] = "append"
    /\ responses' = [responses EXCEPT ![q] = Append(@, ResultOf(q, i))]
    /\ upc' = [upc EXCEPT ![q][i] = "count"]
    /\ UNCHANGED <<now, hpc, aggReq, count, loopI, wg, mu, backend1Count,
                   backend2Count, totalStartTime, totalEndTime, aggStatus, aggBody,
                   uerr, startTime, endTime, respStatus, body, backendResp, relayVars>>

\* The first counter counting every hostname that is not the second.
Backend1AfterNotSecond(h, c) == IF h # backend02 THEN c + 1 ELSE c

\* Lines 377-378: the first counter after a result from hostname h.
Backend1After(h, c) == IF h = backend01 THEN c + 1 ELSE c

\* "else" in place of "else if": every other hostname counts as the second.
Backend2AfterElse(h, c) == IF h # backend01 THEN c + 1 ELSE c

\* Lines 379-381: the second counter after a result from hostname h.
Backend2After(h, c) == IF h # backend01 /\ h = backend02 THEN c + 1 ELSE c

\* Lines 377-381: count the result by its hostname.
UnitCount(q, i) ==
    /\ upc[q][i] = "count"
    /\ backend1Count' = [backend1Count EXCEPT
           ![q] = Backend1After(backendResp[q][i].Hostname, @)]
    /\ backend2Count' = [backend2Count EXCEPT
           ![q] = Backend2After(backendResp[q][i].Hostname, @)]
    /\ upc' = [upc EXCEPT ![q][i] = "unlock"]
    /\ UNCHANGED <<now, hpc, aggReq, count, loopI, wg, mu, responses,
                   totalStartTime, totalEndTime, aggStatus, aggBody,
                   uerr, startTime, endTime, respStatus, body, backendResp, relayVars>>

\* Line 382: mu.Unlock().
UnitUnlock(q, i) ==
    /\ upc[q][i] = "unlock"
    /\ mu' = [mu EXCEPT ![q] = FALSE]
    /\ upc' = [upc EXCEPT ![q][i] = "return"]
    /\ UNCHANGED <<now, hpc, aggReq, count, loopI, wg, responses, backend1Count,
                   backend2Count, totalStartTime, totalEndTime, aggStatus, aggBody,
                   uerr, startTime, endTime, respStatus, body, backendResp, relayVars>>

\* Line 383: the goroutine returns after a success; the deferred calls run.
UnitDone(q, i) ==
    /\ upc[q][i] = "return"
    /\ UnitReturns(q, i, "")
    /\ UNCHANGED <<now, hpc, aggReq, count, loopI, mu, responses, backend1Count,
                   backend2Count, totalStartTime, totalEndTime, aggStatus, aggBody,
                   startTime, endTime, respStatus, body, backendResp, relayVars>>

\* ----------------------------------------------------- relay: the handler

\* http.Error on w: the status, the text, and the headers it sets.
RelayError(msg, code) ==
    /\ relayStatus' = HttpError(msg, code).status
    /\ relayBody' = HttpError(msg, code).text
    /\ relayHeader' =
         HeaderSet(HeaderSet(HeaderSet(relayHeader, "X-Server", serverID),
                             "Content-Type", <<"text/plain; charset=utf-8">>),
                   "X-Content-Type-Options", <<"nosniff">>)
    /\ rpc' = "done"

\* Lines 83-121: the handler up to client.Do: the checks, the target, the
\* outbound request, and the call.
RelayHandle(r) ==
    /\ rpc = "idle"
    /\ relayReq' = r
    /\ IF backend = <<>>
       THEN /\ RelayError("backend not configured", 502)
            /\ UNCHANGED <<outReq, sent>>
       ELSE IF ~allowedMethod(r.method)
       THEN /\ RelayError("method not allowed", 405)
            /\ UNCHANGED <<outReq, sent>>
       ELSE IF ParseURL(backend).err
       THEN /\ RelayError("bad backend url", 500)
            /\ UNCHANGED <<outReq, sent>>
       ELSE /\ outReq' = NewRequest(r, Target(ParseURL(backend), r.path, r.rawQuery))
            /\ sent' = Append(sent, outReq')
            /\ relayHeader' = HeaderSet(relayHeader, "X-Server", serverID)
            /\ rpc' = "calling"
            /\ UNCHANGED <<relayStatus, relayBody>>
    /\ UNCHANGED <<now, aggVars, unitVars, envBackendURL, backend, relayResp>>

\* client.Do's error answered as a gateway timeout.
RelayCallFailsAs504 ==
    /\ rpc = "calling"
    /\ relayResp' = CallError
    /\ RelayError("backend unavailable", 504)
    /\ UNCHANGED <<now, aggVars, unitVars, envBackendURL, backend, relayReq, outReq,
                   sent>>

\* Lines 121-126: client.Do returns an error.
RelayCallFails ==
    /\ rpc = "calling"
    /\ relayResp' = CallError
    /\ RelayError("backend unavailable", 502)
    /\ UNCHANGED <<now, aggVars, unitVars, envBackendURL, backend, relayReq, outReq,
                   sent>>

\* The backend's headers passed through copyHeaders on the way back.
RelayCallReturnsFiltered(resp) ==
    /\ rpc = "calling"
    /\ relayResp' = CallResponse(resp)
    /\ relayHeader' = copyHeaders(resp.header, relayHeader)
    /\ relayStatus' = resp.status
    /\ relayBody' = [kind |-> "copy", data |-> resp.body]
    /\ rpc' = "done"
    /\ UNCHANGED <<now, aggVars, unitVars, envBackendURL, backend, relayReq, outReq,
                   sent>>

\* Lines 127-136: the backend's headers, status and body are passed on.
RelayCallReturns(resp) ==
    /\ rpc = "calling"
    /\ relayResp' = CallResponse(resp)
    /\ relayHeader' = HeaderAddAll(relayHeader, resp.header, DOMAIN resp.header)
    /\ relayStatus' = resp.status
    /\ relayBody' = [kind |-> "copy", data |-> resp.body]
    /\ rpc' = "done"
    /\ UNCHANGED <<now, aggVars, unitVars, envBackendURL, backend, relayReq, outReq,
                   sent>>

\* ------------------------------------------------------------- the clock

\* Time passes: time.Now() reads one tick more. The clock is monotonic.
Tick ==
    /\ now < MaxTime
    /\ now' = now + 1
    /\ UNCHANGED <<aggVars, unitVars, relayVars>>

\* ---------------------------------------------------------- specification

\* The steps of aggregation request q.
AggStep(q) ==
    \/ \E s \in CountStrs : AggArrive(q, s)
    \/ AggReceive(q)
    \/ AggLaunch(q)
    \/ AggLoopExit(q)
    \/ AggWait(q)
    \/ AggRespond(q)
    \/ \E i \in Units :
        \/ UnitStart(q, i)
        \/ UnitGetFails(q, i)
        \/ \E sc \in StatusCodes : UnitGetResponds(q, i, sc)
        \/ UnitReadFails(q, i)
        \/ \E b \in Bodies(q, i) : UnitReadAll(q, i, b)
        \/ UnitUnmarshalFails(q, i)
        \/ UnitUnmarshal(q, i)
        \/ UnitLock(q, i)
        \/ UnitAppend(q, i)
        \/ UnitCount(q, i)
        \/ UnitUnlock(q, i)
        \/ UnitDone(q, i)

\* One aggregation request, served alone.
Next == AggStep("r1")

Spec == Init /\ [][Next]_vars

\* The count parameters of one call and of two concurrent calls.
PlainCounts == {<<"1">>, <<"2">>}

\* The steps of aggregation request q when the backend answers every call it
\* answers with a 200 and a well-formed body from GoBackend01; a call may
\* still fail in the network.
AggStepAnswered(q) ==
    \/ \E s \in PlainCounts : AggArrive(q, s)
    \/ AggReceive(q)
    \/ AggLaunch(q)
    \/ AggLoopExit(q)
    \/ AggWait(q)
    \/ AggRespond(q)
    \/ \E i \in Units :
        \/ UnitStart(q, i)
        \/ UnitGetFails(q, i)
        \/ UnitGetResponds(q, i, 200)
        \/ UnitReadAll(q, i, JsonObject(<<q, i>>, backend01))
        \/ UnitUnmarshal(q, i)
        \/ UnitLock(q, i)
        \/ UnitAppend(q, i)
        \/ UnitCount(q, i)
        \/ UnitUnlock(q, i)
        \/ UnitDone(q, i)

\* One aggregation request while time passes.
TimedNext == Tick \/ AggStepAnswered("r1")

TimedSpec == Init /\ [][TimedNext]_vars

\* Two aggregation requests in flight, each served by its own goroutine of
\* the HTTP server.
PairNext == AggStepAnswered("r1") \/ AggStepAnswered("r2")

PairSpec == Init /\ [][PairNext]_vars

\* The steps of the handler goroutine of aggregation request q.
HandlerStep(q) ==
    \/ AggReceive(q)
    \/ AggLaunch(q)
    \/ AggLoopExit(q)
    \/ AggWait(q)
    \/ AggRespond(q)

\* The steps of the goroutine of unit i and of the call it makes: the call
\* fails, hangs, or is answered 200 with a body that decodes or does not.
UnitStep(q, i) ==
    \/ UnitStart(q, i)
    \/ UnitGetFails(q, i)
    \/ UnitHangs(q, i)
    \/ UnitGetResponds(q, i, 200)
    \/ UnitReadFails(q, i)
    \/ \E b \in {Garbage, JsonObject(<<q, i>>, backend01)} : UnitReadAll(q, i, b)
    \/ UnitUnmarshalFails(q, i)
    \/ UnitUnmarshal(q, i)
    \/ UnitLock(q, i)
    \/ UnitAppend(q, i)
    \/ UnitCount(q, i)
    \/ UnitUnlock(q, i)
    \/ UnitDone(q, i)

\* One aggregation request whose calls may hang.
LiveNext ==
    \/ \E s \in PlainCounts : AggArrive("r1", s)
    \/ HandlerStep("r1")
    \/ \E i \in Units : UnitStep("r1", i)

\* The Go scheduler runs every goroutine that can run; a call that does not
\* hang returns.
LiveSpec ==
    /\ Init
    /\ [][LiveNext]_vars
    /\ WF_vars(HandlerStep("r1"))
    /\ \A i \in Units : WF_vars(UnitStep("r1", i))

\* One relay request.
RelayNext ==
    \/ rpc = "idle" /\ \E r \in RelayRequests : RelayHandle(r)
    \/ RelayCallFails
    \/ \E resp \in BackendResponses : RelayCallReturns(resp)

RelaySpec == FrontendInit /\ [][RelayNext]_vars

\* ------------------------------------------------ aggregator: properties

\* The response of request q has been written with status 200.
Responded(q) == hpc[q] = "done" /\ aggStatus[q] = 200

\* The units request q launches.
Launched(q) == {i \in Units : i <= count[q]}

\* The entries of the written response.
Entries(q) == aggBody[q].responses.items

\* The number of entries of rs that name hostname h.
CountOf(rs, h) == Cardinality({k \in 1..Len(rs) : rs[k].Hostname = h})

\* The call of unit i failed in the network, in the read of the body, or
\* by a body that is no JSON object.
CallFailed(q, i) ==
    \/ uerr[q][i] \in {"get", "read"}
    \/ body[q][i].kind = "garbage"

\* The call of unit i returned a response that is not 2xx.
CallNon2xx(q, i) == respStatus[q][i] # 0 /\ respStatus[q][i] \notin 200..299

\* The units of q that have issued their backend call.
Attempted(q) == {i \in Units : upc[q][i] \notin {"none", "start"}}

\* C1: when all n >= 1 calls of a request succeed, the response has exactly n
\* entries and backend1_count + backend2_count <= n, with equality exactly
\* when every entry's hostname is GoBackend01 or GoBackend02.
C1_AllSucceed ==
    \A q \in AggReqs :
        (Responded(q) /\ count[q] >= 1
            /\ \A i \in Launched(q) : ~CallFailed(q, i))
        => /\ Len(Entries(q)) = count[q]
           /\ aggBody[q].backend1_count + aggBody[q].backend2_count <= count[q]
           /\ (aggBody[q].backend1_count + aggBody[q].backend2_count = count[q])
              <=> (\A k \in 1..Len(Entries(q)) :
                      Entries(q)[k].Hostname \in {"GoBackend01", "GoBackend02"})

\* C1 witness: two calls succeeded, one from a hostname known to neither
\* constant, so the counters sum to less than n.
C1_Witness ==
    /\ Responded("r1") /\ count["r1"] = 2
    /\ \A i \in Launched("r1") : ~CallFailed("r1", i)
    /\ Len(Entries("r1")) = 2
    /\ aggBody["r1"].backend1_count + aggBody["r1"].backend2_count = 1

\* C2 as stated: n calls are attempted and the response holds n minus the
\* calls that failed by a network error, a non-2xx status or a malformed body.
C2_Original ==
    \A q \in AggReqs :
        (Responded(q) /\ count[q] >= 0)
        => /\ Cardinality(Attempted(q)) = count[q]
           /\ Len(Entries(q)) = count[q]
                - Cardinality({i \in Launched(q) :
                                  CallFailed(q, i) \/ CallNon2xx(q, i)})

\* C2 amended: n calls are attempted and the response holds n minus the calls
\* that failed by a network error, a body-read error or a body that does not
\* decode; the status code is not looked at.
C2_FailuresDropped ==
    \A q \in AggReqs :
        (Responded(q) /\ count[q] >= 0)
        => /\ Cardinality(Attempted(q)) = count[q]
           /\ Len(Entries(q)) = count[q]
                - Cardinality({i \in Launched(q) : CallFailed(q, i)})
           /\ \A i \in Launched(q) :
                CallFailed(q, i)
                => \A k \in 1..Len(Entries(q)) : Entries(q)[k].UUID # <<q, i>>

\* C2 witness: of two calls one failed and the other returned a 500 with a
\* body that decodes, which is an entry of the response.
C2_Witness ==
    /\ Responded("r1") /\ count["r1"] = 2
    /\ \E i, j \in Launched("r1") :
        /\ CallFailed("r1", i)
        /\ ~CallFailed("r1", j) /\ CallNon2xx("r1", j)
    /\ Len(Entries("r1")) = 1

\* C3: the response is built and written only when every launched unit has
\* returned: no unit of a request is running once the handler is past Wait.
C3_Barrier ==
    \A q \in AggReqs :
        (hpc[q] \in {"respond", "done"} \/ aggStatus[q] # 0)
        => /\ \A i \in Units : upc[q][i] \in {"none", "done"}
           /\ aggStatus[q] = 200 => \A i \in Launched(q) : upc[q][i] = "done"

\* C3 witness: the response is written after two units returned, one of them
\* on a failure.
C3_Witness ==
    /\ Responded("r1") /\ count["r1"] = 2
    /\ \E i, j \in Launched("r1") : uerr["r1"][i] # "" /\ uerr["r1"][j] = ""
    /\ \A i \in Launched("r1") : upc["r1"][i] = "done"

\* The units inside the critical section of lines 371-382.
InCritical(q) == {i \in Units : upc[q][i] \in {"append", "count", "unlock"}}

\* The units that have left the critical section.
PastCritical(q) ==
    {i \in Units : upc[q][i] = "return" \/ (upc[q][i] = "done" /\ uerr[q][i] = "")}

\* C4: append and increment are one critical section: at most one unit is in
\* it, it is entered only with the lock held, and whenever the lock is free
\* every unit that left it has exactly one entry and each counter equals the
\* number of entries of its hostname.
C4_CriticalSection ==
    \A q \in AggReqs :
        /\ Cardinality(InCritical(q)) <= 1
        /\ InCritical(q) # {} => mu[q]
        /\ ~mu[q] =>
            /\ Len(responses[q]) = Cardinality(PastCritical(q))
            /\ \A i \in PastCritical(q) :
                Cardinality({k \in 1..Len(responses[q]) :
                                responses[q][k].UUID = <<q, i>>}) = 1
            /\ backend1Count[q] = CountOf(responses[q], "GoBackend01")
            /\ backend2Count[q] = CountOf(responses[q], "GoBackend02")

\* C4 witness: one unit holds the lock, has appended and is about to count,
\* while another waits at mu.Lock().
C4_Witness ==
    \E i, j \in Units :
        /\ upc["r1"][i] = "count"
        /\ upc["r1"][j] = "lock"
        /\ mu["r1"]
        /\ Len(responses["r1"]) = 1

\* C5: a unit that fails adds no entry and no count, and the others are not
\* affected: in the response the entries are exactly those of the units whose
\* call did not fail, one each, and the counters count those entries.
C5_FailureIsolated ==
    \A q \in AggReqs :
        /\ \A i \in Units :
            CallFailed(q, i)
            => \A k \in 1..Len(responses[q]) : responses[q][k].UUID # <<q, i>>
        /\ Responded(q) =>
            /\ {Entries(q)[k].UUID : k \in 1..Len(Entries(q))}
                 = {<<q, i>> : i \in {j \in Launched(q) : ~CallFailed(q, j)}}
            /\ Len(Entries(q))
                 = Cardinality({j \in Launched(q) : ~CallFailed(q, j)})
            /\ aggBody[q].backend1_count = CountOf(Entries(q), "GoBackend01")
            /\ aggBody[q].backend2_count = CountOf(Entries(q), "GoBackend02")

\* C5 witness: one unit failed on its body, the other's result from
\* GoBackend02 is in the response and counted.
C5_Witness ==
    /\ Responded("r1") /\ count["r1"] = 2
    /\ \E i, j \in Launched("r1") :
        /\ uerr["r1"][i] = "unmarshal"
        /\ uerr["r1"][j] = ""
    /\ Len(Entries("r1")) = 1
    /\ aggBody["r1"].backend2_count = 1

\* C6: when every unit of a request fails the response is 200 with an empty
\* responses array and both counters 0.
C6_AllFailEmptyArray ==
    \A q \in AggReqs :
        (Responded(q) /\ count[q] >= 1
            /\ \A i \in Launched(q) : CallFailed(q, i))
        => /\ aggBody[q].responses = [json |-> "array", items |-> <<>>]
           /\ aggBody[q].backend1_count = 0
           /\ aggBody[q].backend2_count = 0

\* A count parameter that is a decimal integer: digits after an optional sign.
IsIntegerText(s) ==
    /\ Len(s) >= 1
    /\ \A k \in 2..Len(s) : s[k] \in Digits
    /\ s[1] \in Digits \/ (s[1] \in {"+", "-"} /\ Len(s) >= 2)

\* C7: a request without count is answered 400 "count parameter is required",
\* one whose count is no integer 400 "invalid count parameter", and a request
\* answered 400 has launched no unit and made no backend call.
C7_BadCountRejected ==
    /\ [][\A q \in AggReqs :
            (aggReq[q] # NoReq /\ aggReq'[q] = NoReq)
            => /\ aggReq[q].countStr = <<>>
                  => /\ aggStatus'[q] = 400
                     /\ aggBody'[q] = [kind |-> "text",
                                       text |-> "count parameter is required"]
                     /\ hpc'[q] = "done"
               /\ (aggReq[q].countStr # <<>> /\ ~IsIntegerText(aggReq[q].countStr))
                  => /\ aggStatus'[q] = 400
                     /\ aggBody'[q] = [kind |-> "text",
                                       text |-> "invalid count parameter"]
                     /\ hpc'[q] = "done"]_vars
    /\ [](\A q \in AggReqs :
            aggStatus[q] = 400
            => /\ hpc[q] = "done"
               /\ Attempted(q) = {}
               /\ \A i \in Units : upc[q][i] = "none"
               /\ wg[q] = 0)

\* C7 witness: a request was answered 400 "invalid count parameter" and no
\* unit exists.
C7_Witness ==
    /\ aggStatus["r1"] = 400
    /\ aggBody["r1"].text = "invalid count parameter"
    /\ \A i \in Units : upc["r1"][i] = "none"

\* ------------------------------------------------------ relay: properties

\* The relay has taken the request relayReq.
RelayTaken == rpc # "idle"

\* C8: a relay request whose method is none of GET, POST, PUT, DELETE is
\* answered 405 "method not allowed" and no outbound call is made for it.
C8_MethodNotAllowed ==
    (RelayTaken /\ relayReq.method \notin {"GET", "POST", "PUT", "DELETE"})
    => /\ rpc = "done"
       /\ relayStatus = 405
       /\ relayBody = [kind |-> "text", text |-> "method not allowed"]
       /\ outReq = NoOutReq
       /\ sent = <<>>

\* C8 witness: a PATCH request has been answered 405 without a call.
C8_Witness ==
    /\ rpc = "done"
    /\ relayReq.method = "PATCH"
    /\ relayStatus = 405
    /\ sent = <<>>

\* C9: when BACKEND_URL configures no backend, every relay request is
\* rejected with 502 "backend not configured" and no outbound call is made.
C9_UnconfiguredRejected ==
    (RelayTaken /\ envBackendURL = <<>>)
    => /\ rpc = "done"
       /\ relayStatus = 502
       /\ relayBody = [kind |-> "text", text |-> "backend not configured"]
       /\ sent = <<>>

\* The names of a path, without its slashes.
NamesOf(p) == SelectSeq(p, LAMBDA x : x # "/")

\* A path that starts with a slash, doubles none and ends in none.
WellFormedPath(p) ==
    /\ p # <<>> /\ p[1] = "/"
    /\ \A k \in 1..(Len(p) - 1) : ~(p[k] = "/" /\ p[k + 1] = "/")
    /\ Len(p) > 1 => p[Len(p)] # "/"

Outbound == sent[1]

\* The hop-by-hop names of the claim, spelled as net/http canonicalizes the
\* keys of r.Header.
ClaimedHopNames ==
    {"Connection", "Keep-Alive", "Proxy-Authenticate", "Proxy-Authorization",
     "Te", "Trailers", "Transfer-Encoding", "Upgrade"}

\* C11: the outbound request carries, with all their values, exactly the
\* inbound headers whose name is not Connection, Keep-Alive,
\* Proxy-Authenticate, Proxy-Authorization, TE, Trailers, Transfer-Encoding or
\* Upgrade; none of these reaches the backend. (X-Forwarded-For is set after
\* the copy, line 118, and is the subject of C14.)
C11_HeadersSanitized ==
    Len(sent) = 1
    => /\ \A k \in (DOMAIN relayReq.header \cup DOMAIN Outbound.header)
                     \ {"X-Forwarded-For"} :
            /\ k \in DOMAIN Outbound.header
               <=> (k \in DOMAIN relayReq.header /\ k \notin ClaimedHopNames)
            /\ k \in DOMAIN Outbound.header
               => Outbound.header[k] = relayReq.header[k]
       /\ \A k \in ClaimedHopNames : k \notin DOMAIN Outbound.header

\* C11 witness: of Accept (two values), Connection: keep-alive and Upgrade,
\* only Accept went out, with both values.
C11_Witness ==
    /\ Len(sent) = 1
    /\ DOMAIN relayReq.header = {"Accept", "Connection", "Upgrade"}
    /\ relayReq.header["Connection"][1] = <<"keep-alive">>
    /\ DOMAIN Outbound.header = {"Accept", "X-Forwarded-For"}
    /\ Len(Outbound.header["Accept"]) = 2

\* Nothing was written as the body.
BodyEmpty(b) ==
    \/ b.kind = "none"
    \/ b.kind = "text" /\ b.text = ""
    \/ b.kind = "copy" /\ b.data = ""

\* C12 as stated: when the outbound call fails in transport the relay answers
\* 502 and the body sent to the client is empty.
C12_Original ==
    relayResp = CallError
    => /\ relayStatus = 502
       /\ BodyEmpty(relayBody)

\* C12 amended: when the outbound call fails in transport the relay answers
\* 502 with the plain-text body "backend unavailable".
C12_BackendUnavailable ==
    relayResp = CallError
    => /\ rpc = "done"
       /\ relayStatus = 502
       /\ relayBody = [kind |-> "text", text |-> "backend unavailable"]
       /\ relayHeader["Content-Type"] = << <<"text/plain; charset=utf-8">> >>

\* C12 witness: a call was sent, failed, and was answered 502.
C12_Witness ==
    /\ Len(sent) = 1
    /\ relayResp = CallError
    /\ relayStatus = 502
    /\ relayBody.text = "backend unavailable"

\* The last n elements of s.
LastOf(s, n) == SubSeq(s, Len(s) - n + 1, Len(s))

IsTrimmed(r, v) ==
    /\ r = <<>> \/ (r[1] # " " /\ r[Len(r)] # " ")
    /\ \E i \in 1..(Len(v) + 1), j \in 0..Len(v) :
        /\ r = SubSeq(v, i, j)
        /\ \A k \in 1..Len(v) : (k < i \/ k > j) => v[k] = " "

\* r is the first comma-separated entry of v, without the spaces around it.
IsFirstEntry(r, v) ==
    \E n \in 0..Len(v) :
        /\ \A k \in 1..n : v[k] # ","
        /\ n = Len(v) \/ v[n + 1] = ","
        /\ IsTrimmed(r, SubSeq(v, 1, n))

\* C14: the outbound request has exactly one X-Forwarded-For value: the first
\* comma-separated entry, trimmed, of the inbound X-Forwarded-For when that is
\* present and not empty, otherwise the host of the remote address.
C14_ForwardedFor ==
    Len(sent) = 1
    => /\ "X-Forwarded-For" \in DOMAIN Outbound.header
       /\ Len(Outbound.header["X-Forwarded-For"]) = 1
       /\ LET v == Outbound.header["X-Forwarded-For"][1]
              h == relayReq.header
          IN  IF "X-Forwarded-For" \in DOMAIN h /\ h["X-Forwarded-For"][1] # <<>>
              THEN IsFirstEntry(v, h["X-Forwarded-For"][1])
              ELSE v = <<relayReq.remoteAddr[1]>>

\* C14 witness: of " 1.1.1.1 , 2.2.2.2" only 1.1.1.1 went out.
C14_Witness ==
    /\ Len(sent) = 1
    /\ "X-Forwarded-For" \in DOMAIN relayReq.header
    /\ Len(relayReq.header["X-Forwarded-For"][1]) = 6
    /\ Outbound.header["X-Forwarded-For"] = << <<"1.1.1.1">> >>

\* The whole milliseconds m of a duration of d ticks.
WholeMs(m, d) == m * TicksPerMs <= d /\ d < (m + 1) * TicksPerMs

\* C15: the reported total_time is the whole milliseconds of the one
\* difference between the end timestamp taken after the barrier and the start
\* timestamp taken before the loop, and it is at least the exec_time of every
\* entry of the response.
C15_TotalTime ==
    \A q \in AggReqs :
        Responded(q)
        => /\ aggBody[q].total_time[2] = " ms"
           /\ WholeMs(aggBody[q].total_time[1], totalEndTime[q] - totalStartTime[q])
           /\ \A k \in 1..Len(Entries(q)) :
                  /\ Entries(q)[k].ExecTime[2] = " ms"
                  /\ aggBody[q].total_time[1] >= Entries(q)[k].ExecTime[1]

\* Two calls overlapped: the total is less than the sum of the two exec_times.
C15_Witness ==
    /\ Responded("r1")
    /\ Len(Entries("r1")) = 2
    /\ Entries("r1")[1].ExecTime[1] >= 1
    /\ aggBody["r1"].total_time[1]
          < Entries("r1")[1].ExecTime[1] + Entries("r1")[2].ExecTime[1]

\* The decoded hostname of unit i is neither GoBackend01 nor GoBackend02.
Uncounted(q, i) ==
    /\ upc[q][i] \in {"lock", "append", "count", "unlock", "return"}
    /\ backendResp[q][i].Hostname \notin {"GoBackend01", "GoBackend02"}

\* C16: a successful result whose hostname is neither constant is appended
\* to the results, and no step of its unit changes either counter.
C16_UncountedAppended ==
    [][\A q \in AggReqs : \A i \in Units :
          (Uncounted(q, i) /\ upc'[q][i] # upc[q][i])
          => /\ backend1Count'[q] = backend1Count[q]
             /\ backend2Count'[q] = backend2Count[q]
             /\ upc[q][i] = "append"
                => /\ Len(responses'[q]) = Len(responses[q]) + 1
                   /\ responses'[q][Len(responses'[q])].UUID = backendResp[q][i].UUID
                   /\ responses'[q][Len(responses'[q])].Hostname
                         = backendResp[q][i].Hostname
             /\ upc[q][i] # "append" => responses'[q] = responses[q]]_vars

\* A result from a third hostname was appended and its unit has left the
\* critical section with both counters still 0.
C16_Witness ==
    \E i \in Units :
        /\ upc["r1"][i] = "return"
        /\ backendResp["r1"][i].Hostname \notin {"GoBackend01", "GoBackend02"}
        /\ Len(responses["r1"]) = 1
        /\ responses["r1"][1].UUID = <<"r1", i>>
        /\ backend1Count["r1"] = 0
        /\ backend2Count["r1"] = 0

\* The units whose call never returns.
Hung(q) == {i \in Units : upc[q][i] = "hung"}

\* The units that were launched and have not signalled completion.
Unsignalled(q) == {i \in Units : upc[q][i] \notin {"none", "done"}}

\* C17: every unit signals completion exactly once on whatever path it
\* leaves by (the barrier counter is the number of launched units that have
\* not returned), no unit leaves with the lock held, the response is never
\* sent while a call hangs, and when no call hangs an accepted request is
\* eventually answered.
C17_Liveness ==
    /\ [](\A q \in AggReqs :
            /\ wg[q] = Cardinality(Unsignalled(q))
            /\ mu[q] <=> InCritical(q) # {}
            /\ Hung(q) # {} => hpc[q] \notin {"respond", "done"})
    /\ \A q \in AggReqs :
          (hpc[q] = "loop") ~> (Responded(q) \/ Hung(q) # {})

\* One call hangs after the other has returned: the handler is at the
\* barrier, which still counts one unit.
C17_Witness ==
    \E i, j \in Units :
        /\ upc["r1"][i] = "hung"
        /\ upc["r1"][j] = "done"
        /\ hpc["r1"] = "wait"
        /\ wg["r1"] = 1

\* The unit whose call produced entry e (the backend's uuid names the call).
UnitOf(e) == e.UUID[2]

\* The units of request q that have an entry in rs.
WithEntry(q, rs) == {UnitOf(rs[k]) : k \in 1..Len(rs)}

\* The units that acquired the lock and appended.
Appended(q) ==
    {i \in Units : \/ upc[q][i] \in {"count", "unlock", "return"}
                   \/ upc[q][i] = "done" /\ uerr[q][i] = ""}

\* C18 as stated: the entries of the response are in the order of their
\* units' end timestamps.
C18_Original ==
    \A q \in AggReqs :
        Responded(q)
        => \A k, l \in 1..Len(Entries(q)) :
              k < l => endTime[q][UnitOf(Entries(q)[k])]
                         <= endTime[q][UnitOf(Entries(q)[l])]

\* C18, amended: the order of the entries is the order in which the units
\* acquire the lock. When a unit acquires it, exactly the units that acquired
\* it before have their entries in the collection; the holder appends its
\* entry last; nothing else changes the collection; and the response lists
\* the collection as it stands.
C18_LockOrder ==
    /\ [][\A q \in AggReqs :
            /\ \A i \in Units :
                  /\ (upc[q][i] = "lock" /\ upc'[q][i] = "append")
                     => WithEntry(q, responses[q]) = Appended(q)
                  /\ (upc[q][i] = "append" /\ upc'[q][i] # "append")
                     => /\ Len(responses'[q]) = Len(responses[q]) + 1
                        /\ SubSeq(responses'[q], 1, Len(responses[q])) = responses[q]
                        /\ UnitOf(responses'[q][Len(responses'[q])]) = i
            /\ (\A i \in Units : upc[q][i] = "append" => upc'[q][i] = "append")
               => responses'[q] = responses[q]]_vars
    /\ [](\A q \in AggReqs : Responded(q) => Entries(q) = responses[q])

\* The unit issued second took its end timestamp first and its entry comes
\* second: the unit that finished later acquired the lock first.
C18_Witness ==
    /\ Responded("r1")
    /\ Len(Entries("r1")) = 2
    /\ UnitOf(Entries("r1")[1]) = 1
    /\ endTime["r1"][1] > endTime["r1"][2]

\* s is the text of an integer that is zero or negative: a minus sign before
\* digits, or digits that are all zeros.
NonPositiveText(s) ==
    /\ IsIntegerText(s)
    /\ \/ s[1] = "-"
       \/ \A k \in 1..Len(s) : s[k] \in {"+", "0"}

\* Request q was accepted with a count of zero or less.
AcceptedNonPositive(q) ==
    /\ count[q] <= 0
    /\ hpc[q] \in {"loop", "wait", "respond"} \/ Responded(q)

\* C19: a request whose count is the text of an integer <= 0 is accepted
\* and not answered 400; after it no unit exists and no call is made, the
\* barrier counter is zero so the wait returns at once, and the response is
\* 200 with no entries and both counters 0.
C19_NonPositiveCount ==
    /\ [][\A q \in AggReqs :
            (hpc[q] = "idle" /\ hpc'[q] # "idle" /\ NonPositiveText(aggReq[q].countStr))
            => /\ hpc'[q] = "loop"
               /\ aggStatus'[q] = 0
               /\ count'[q] <= 0]_vars
    /\ [](\A q \in AggReqs :
            AcceptedNonPositive(q)
            => /\ \A i \in Units : upc[q][i] = "none"
               /\ Attempted(q) = {}
               /\ wg[q] = 0
               /\ hpc[q] = "wait" => WaitReturns(q)
               /\ responses[q] = <<>>
               /\ hpc[q] = "done"
                  => /\ aggStatus[q] = 200
                     /\ Len(Entries(q)) = 0
                     /\ aggBody[q].backend1_count = 0
                     /\ aggBody[q].backend2_count = 0)

\* A request with a negative count was answered 200.
C19_Witness ==
    /\ Responded("r1")
    /\ count["r1"] < 0
    /\ aggBody["r1"].backend1_count = 0

\* The request whose call produced entry e.
RequestOf(e) == e.UUID[1]

\* C20: with two requests in flight, each request's collection holds one
\* entry for each of its own units that appended and nothing else, its
\* barrier counter is the number of its own units that have not returned, its
\* lock is held exactly while one of its own units is in the critical
\* section, and its response lists its own collection with counters that
\* count the entries of that collection.
C20_Isolated ==
    \A q \in AggReqs :
        /\ \A k \in 1..Len(responses[q]) : RequestOf(responses[q][k]) = q
        /\ WithEntry(q, responses[q]) = Appended(q)
        /\ Len(responses[q]) = Cardinality(Appended(q))
        /\ wg[q] = Cardinality(Unsignalled(q))
        /\ mu[q] <=> InCritical(q) # {}
        /\ Responded(q)
           => /\ Unsignalled(q) = {}
              /\ Entries(q) = responses[q]
              /\ aggBody[q].backend1_count = CountOf(Entries(q), backend01)
              /\ aggBody[q].backend2_count = CountOf(Entries(q), backend02)

\* The first request has been answered with its two results while a unit of
\* the second is inside its critical section and another has not returned.
C20_Witness ==
    /\ Responded("r1")
    /\ Len(Entries("r1")) = 2
    /\ hpc["r2"] = "wait"
    /\ upc["r2"][1] = "count"
    /\ upc["r2"][2] = "get"
    /\ Len(responses["r2"]) = 1

====
